---------------------------- MODULE Spec2Model ----------------------------
(***************************************************************************)
(* Model of src/y-storage.mjs: createYStorage, a localStorage-like API     *)
(* backed by a Yjs document (one Y.Map) and synchronised peer to peer over *)
(* a Trystero room with three actions (yjs:sync1, yjs:sync2, yjs:upd).     *)
(*                                                                         *)
(* The two libraries the file imports are modelled by what their calls do: *)
(*   - Yjs: every map.set creates an Item (id = <<client, clock>>, origin  *)
(*     = the item that was the key's current one); items of one key form a *)
(*     list ordered by Item.integrate (YATA); the key's value is the       *)
(*     content of the last item of the list unless that item is deleted;   *)
(*     updates are sets of items plus a delete set; items whose causal     *)
(*     predecessors are missing wait in pendingStructs / pendingDs.        *)
(*   - Trystero: a peerMap per room; an action's send goes to the named    *)
(*     peer, or to every peer of peerMap, and is dropped for a peer that   *)
(*     is not in peerMap; delivery is FIFO per ordered pair of peers.      *)
(***************************************************************************)
EXTENDS Integers, Sequences, FiniteSets, TLC

VARIABLES
    cfg,        \* per behaviour: who can meet whom, maxPeers, and the Trystero build
    doc,        \* doc[p]: the Y.Doc of peer p (store, key lists, delete set, pending)
    snap,       \* snap[p]: the retained snapshot (line 75), key -> value or Null
    events,     \* events[p]: every "storage" event dispatched on p's bus, in order
    peerMap,    \* peerMap[p]: the peers p's room is connected to
    room,       \* room[p]: "none" (not constructed), "joined", "leaving" (leave()
                \* called, peers not yet closed), "left"
    net,        \* net[<<a, b>>]: messages sent by a to b and not yet delivered (FIFO)
    calls,      \* the local API calls made so far, in order
    updCount,   \* updCount[p]: number of sendUpd broadcasts p has made
    gated,      \* gated[p]: the peers whose join p's handler left unanswered (line 48)
    destroyed,  \* destroyed[p]: number of destroy() calls made on p
    lost,       \* the update messages the transport lost: [from, to, body]
    last,       \* the handler that ran in the last step
    sent,       \* the messages the last step put on the wire
    emitted     \* the events the last step dispatched

vars == <<cfg, doc, snap, events, peerMap, room, net, calls, updCount, gated, destroyed,
          lost, last, sent, emitted>>

---------------------------------------------------------------------------
(* Bounds and value sets *)

Peers == {1, 2, 3}

Keys == {"x", "y"}

Vals == {"1", "2"}

\* values as a caller passes them: a tagged pair <<type, text>>
RawVals == {<<"string", "1">>, <<"string", "2">>, <<"number", "1">>}

RawKeys == {<<"string", "x">>, <<"string", "y">>}

\* local API calls per behaviour: of Spec, of SpecDestroy, of SpecCap
MaxCalls == 3

MaxCallsDestroy == 2

MaxCallsCap == 1

\* destroy() calls per behaviour
MaxDestroy == 2

\* local API calls per behaviour: of SpecFault, of SpecLoss, of SpecCreate, of SpecLive
MaxCallsFault == 1

MaxCallsLoss == 2

MaxCallsCreate == 1

MaxCallsLive == 1

\* update messages the transport loses per behaviour
MaxLost == 1

Null == "null"

NoId == <<0, 0>>

\* String(x) of lines 111-118 and 159: the text of a string or of a number
String(raw) == raw[2]

---------------------------------------------------------------------------
(* Yjs: the document *)

EmptyDoc ==
    [ items   |-> {},                       \* integrated Items
      order   |-> [k \in Keys |-> <<>>],    \* per key: item ids in list order
      korder  |-> <<>>,                     \* keys of map._map in insertion order
      del     |-> {},                       \* ids of deleted items
      pend    |-> {},                       \* pendingStructs
      pendDs  |-> {},                       \* pendingDs
      observed |-> TRUE ]                   \* doc.on("update") handler still attached

ItemOf(d, id) == CHOOSE i \in d.items : i.id = id

Ids(d) == {i.id : i \in d.items}

\* getState(store, client): the next clock of client
StateOf(d, c) == Cardinality({i \in d.items : i.id[1] = c})

Last(s) == IF Len(s) = 0 THEN NoId ELSE s[Len(s)]

\* map.get(key): the content of the key's current item, Null for undefined
MapGet(d, k) ==
    LET id == Last(d.order[k])
    IN  IF id = NoId \/ id \in d.del THEN Null ELSE ItemOf(d, id).val

\* the keys map.forEach / map.keys visit, in the order of map._map
LiveKeys(d) == SelectSeq(d.korder, LAMBDA k : MapGet(d, k) # Null)

\* map.size
MapSize(d) == Len(LiveKeys(d))

IndexOf(s, x) == IF \E j \in 1..Len(s) : s[j] = x
                 THEN CHOOSE j \in 1..Len(s) : s[j] = x
                 ELSE 0

InsertAt(s, pos, x) ==
    [j \in 1..(Len(s) + 1) |-> IF j < pos THEN s[j] ELSE IF j = pos THEN x ELSE s[j - 1]]

\* Item.integrate's conflict loop for an item `it` whose right origin is null:
\* scans the key's list from index j, returns the index the item goes after.
RECURSIVE ScanLeft(_, _, _, _, _, _, _)
ScanLeft(d, s, it, j, left, conf, before) ==
    IF j > Len(s) THEN left
    ELSE LET o == ItemOf(d, s[j])
             before2 == before \cup {o.id}
             conf2 == conf \cup {o.id}
         IN  IF o.origin = it.origin
             THEN IF o.id[1] < it.id[1]
                  THEN ScanLeft(d, s, it, j + 1, j, {}, before2)
                  ELSE left
             ELSE IF o.origin # NoId /\ o.origin \in before2
                  THEN IF o.origin \notin conf2
                       THEN ScanLeft(d, s, it, j + 1, j, {}, before2)
                       ELSE ScanLeft(d, s, it, j + 1, left, conf2, before2)
                  ELSE left

\* Item.integrate for a map entry: place the item in its key's list; the item
\* that ends up last is the key's value, every other one is deleted.
Integrate(d, it) ==
    LET s == d.order[it.key]
        l0 == IndexOf(s, it.origin)
        left == IF l0 = Len(s) THEN l0 ELSE ScanLeft(d, s, it, l0 + 1, l0, {}, {})
        atEnd == left = Len(s)
        s2 == InsertAt(s, left + 1, it.id)
        dels == IF atEnd
                THEN (IF left = 0 THEN {} ELSE {s[left]})
                ELSE {it.id}
    IN  [d EXCEPT !.items = @ \cup {it},
                  !.order[it.key] = s2,
                  !.korder = IF atEnd /\ IndexOf(@, it.key) = 0 THEN Append(@, it.key) ELSE @,
                  !.del = @ \cup dels]

\* mutant of MapSet: the new Item names no origin
MapSet_NoOrigin(d, c, k, v) ==
    Integrate(d, [id |-> <<c, StateOf(d, c)>>, key |-> k, val |-> v, origin |-> NoId])

\* typeMapSet: a new Item of client c after the key's current item
MapSet(d, c, k, v) ==
    Integrate(d, [id |-> <<c, StateOf(d, c)>>, key |-> k, val |-> v,
                  origin |-> Last(d.order[k])])

\* typeMapDelete: delete the key's current item, if there is a live one
MapDelete(d, k) ==
    IF MapGet(d, k) = Null THEN d
    ELSE [d EXCEPT !.del = @ \cup {Last(d.order[k])}]

\* Y.Map.clear: typeMapDelete of every key forEach visits, in one transaction
MapClear(d) ==
    [d EXCEPT !.del = @ \cup {Last(d.order[k]) : k \in {q \in Keys : MapGet(d, q) # Null}}]

\* Y.encodeStateVector(doc): client -> next clock
encodeStateVector(d) == [c \in Peers |-> StateOf(d, c)]

\* mutant of encodeStateAsUpdate: the clock the vector names is taken as covered
encodeStateAsUpdate_OffByOne(d, sv) ==
    [ structs |-> {i \in d.items \cup d.pend : i.id[2] > sv[i.id[1]]},
      ds      |-> d.del \cup d.pendDs ]

\* mutant of encodeStateAsUpdate: the delete set is left out of the diff
encodeStateAsUpdate_NoDeletes(d, sv) ==
    [ structs |-> {i \in d.items \cup d.pend : i.id[2] >= sv[i.id[1]]},
      ds      |-> {} ]

\* Y.encodeStateAsUpdate(doc, sv): the items the vector does not cover (the
\* pending ones included) and the whole delete set
encodeStateAsUpdate(d, sv) ==
    [ structs |-> {i \in d.items \cup d.pend : i.id[2] >= sv[i.id[1]]},
      ds      |-> d.del \cup d.pendDs ]

\* mutant of Ready: an item the store already holds is integrated again
Ready_Known(d, i) ==
    /\ i.id[2] <= StateOf(d, i.id[1])
    /\ (i.origin = NoId \/ i.origin \in Ids(d))

\* an item can be integrated: it is the next of its client and its origin is there
Ready(d, i) ==
    /\ i.id \notin Ids(d)
    /\ i.id[2] = StateOf(d, i.id[1])
    /\ (i.origin = NoId \/ i.origin \in Ids(d))

\* integrateStructs: integrate every item that can be, highest client first
RECURSIVE IntegrateAll(_, _)
IntegrateAll(d, cand) ==
    LET ready == {i \in cand : Ready(d, i)}
    IN  IF ready = {} THEN d
        ELSE LET i == CHOOSE x \in ready : \A y \in ready : y.id[1] <= x.id[1]
             IN  IntegrateAll(Integrate(d, i), cand \ {i})

\* mutant of applyUpdate: the update's delete set is not applied
applyUpdate_NoDeletes(d, u) ==
    LET cand == d.pend \cup u.structs
        d1 == IntegrateAll(d, cand)
    IN  [d1 EXCEPT !.pend = {i \in cand : i.id \notin Ids(d1)}]

\* Y.applyUpdate(doc, update): integrate what can be, keep the rest pending,
\* then apply the delete set (and the pending one) to the items that are there
applyUpdate(d, u) ==
    LET cand == d.pend \cup u.structs
        d1 == IntegrateAll(d, cand)
        ds == u.ds \cup d.pendDs
    IN  [d1 EXCEPT !.pend = {i \in cand : i.id \notin Ids(d1)},
                   !.del = @ \cup (ds \cap Ids(d1)),
                   !.pendDs = ds \ Ids(d1)]

\* what a transaction from d0 to d1 reports: the update of the "update" event
TxUpdate(d0, d1) ==
    [ structs |-> d1.items \ d0.items, ds |-> d1.del \ d0.del ]

\* a transaction fires map observers and the "update" event when it added or
\* deleted an item
TxChanged(d0, d1) == d1.items # d0.items \/ d1.del # d0.del

---------------------------------------------------------------------------
(* Lines 75-100, 157-161: snapshots and the "storage" event *)

\* snapshot(map): a Map of key -> String(value), in map.forEach order;
\* modelled as the sequence of its entries
snapshot(d) == [j \in 1..Len(LiveKeys(d)) |-> <<LiveKeys(d)[j], MapGet(d, LiveKeys(d)[j])>>]

SnapHas(s, k) == \E j \in 1..Len(s) : s[j][1] = k

SnapGet(s, k) == (CHOOSE e \in {s[j] : j \in 1..Len(s)} : e[1] = k)[2]

evt(key, oldValue, newValue) == [key |-> key, oldValue |-> oldValue, newValue |-> newValue]

RECURSIVE Flatten(_)
Flatten(ss) == IF Len(ss) = 0 THEN <<>> ELSE Head(ss) \o Flatten(Tail(ss))

\* mutant of ObserveEvents: line 81 dispatches without comparing the values
ObserveEvents_NoFilter(old, next) ==
    LET changed == [j \in 1..Len(next) |->
                      LET k == next[j][1]
                          newValue == next[j][2]
                          oldValue == IF SnapHas(old, k) THEN SnapGet(old, k) ELSE Null
                      IN  <<evt(k, oldValue, newValue)>>]
        removed == [j \in 1..Len(old) |->
                      IF ~SnapHas(next, old[j][1])
                      THEN <<evt(old[j][1], old[j][2], Null)>> ELSE <<>>]
    IN  Flatten(changed) \o Flatten(removed)

\* mutant of ObserveEvents: the loop over the removed keys is missing
ObserveEvents_NoRemovals(old, next) ==
    Flatten([j \in 1..Len(next) |->
               LET k == next[j][1]
                   newValue == next[j][2]
                   oldValue == IF SnapHas(old, k) THEN SnapGet(old, k) ELSE Null
               IN  IF oldValue # newValue THEN <<evt(k, oldValue, newValue)>> ELSE <<>>])

\* the map.observe callback (lines 76-88): the events it dispatches
ObserveEvents(old, next) ==
    LET changed == [j \in 1..Len(next) |->
                      LET k == next[j][1]
                          newValue == next[j][2]
                          oldValue == IF SnapHas(old, k) THEN SnapGet(old, k) ELSE Null
                      IN  IF oldValue # newValue THEN <<evt(k, oldValue, newValue)>> ELSE <<>>]
        removed == [j \in 1..Len(old) |->
                      IF ~SnapHas(next, old[j][1])
                      THEN <<evt(old[j][1], old[j][2], Null)>> ELSE <<>>]
    IN  Flatten(changed) \o Flatten(removed)

---------------------------------------------------------------------------
(* Trystero: the room *)

BinaryTypes == {"Uint8Array", "ArrayBuffer", "TypedArrayView"}

\* mutant of toU8Throws: toU8 lets every payload through
toU8Throws_Never(x) == FALSE

\* toU8 (lines 149-155) accepts the three binary shapes and throws on any other
toU8Throws(x) == x.bin \notin BinaryTypes

toU8(x) == x.body

\* what a message is not a reply to
NoBasis == [doc |-> EmptyDoc, sv |-> [c \in Peers |-> 0]]

\* a message on channel ch. Its payload is body, a Uint8Array; basis is not
\* sent: for a sync-response it records the request it answers and the
\* responder's document when it answered, so that claims can refer to them.
Msg(ch, body, basis) == [ch |-> ch, bin |-> "Uint8Array", body |-> body, basis |-> basis]

\* an action's send: to the named peers, or to every peer of peerMap when no
\* target is named (to = {}); a peer that is not in peerMap gets nothing
Targets(p, to) == IF to = {} THEN peerMap[p] ELSE to \cap peerMap[p]

Wire(p, to, m) == {[from |-> p, to |-> t, msg |-> m] : t \in Targets(p, to)}

\* the queues after the messages of `out` are appended to `base`
NetAfter(base, out) ==
    [pair \in DOMAIN base |->
        IF \E w \in out : <<w.from, w.to>> = pair
        THEN Append(base[pair], (CHOOSE w \in out : <<w.from, w.to>> = pair).msg)
        ELSE base[pair]]

Undefined == -1

\* room.getPeers().length of line 48 for a room whose peers are pm: their
\* number where getPeers returns a list of ids, undefined where it returns an
\* object keyed by peer id
getPeersLength(pm) ==
    IF cfg.peersApi = "list" THEN Cardinality(pm) ELSE Undefined

\* a > b of JavaScript, false when a is undefined
GreaterThan(a, b) == a # Undefined /\ a > b

\* line 48: maxPeers is set (0 is not) and the peers outnumber it
Gated(p, pm) ==
    /\ cfg.maxPeers[p] # 0
    /\ GreaterThan(getPeersLength(pm), cfg.maxPeers[p])

Step(op, p, from, key, val) ==
    [op |-> op, peer |-> p, from |-> from, key |-> key, val |-> val]

\* createYStorage has returned an instance for p (lines 13-147)
Constructed(p) == room[p] # "none"

\* p's room delivers events: joinRoom has run (line 33) and the peers are not closed
InRoom(p) == room[p] \in {"joined", "leaving"}

---------------------------------------------------------------------------
(* The state after construction (lines 21-75) *)

TypeOK ==
    /\ cfg.present \subseteq Peers
    /\ \A p \in cfg.present : room[p] \in {"none", "joined", "leaving", "left"}
    /\ \A p \in cfg.present : peerMap[p] \subseteq cfg.present \ {p}

InitWith(present, links, caps, apis, leaves, ncalls) ==
    /\ cfg \in [ present    : {present},
                 links      : {links},
                 maxCalls   : {ncalls},
                 maxPeers   : {[p \in Peers |-> IF p = 1 THEN c ELSE 0] : c \in caps},
                 peersApi   : apis,
                 leaveAsync : leaves ]
    /\ doc = [p \in present |-> EmptyDoc]
    /\ snap = [p \in present |-> snapshot(EmptyDoc)]
    /\ events = [p \in present |-> <<>>]
    /\ peerMap = [p \in present |-> {}]
    /\ room = [p \in present |-> "joined"]
    /\ net = [pair \in {<<a, b>> \in present \X present : a # b} |-> <<>>]
    /\ calls = <<>>
    /\ updCount = [p \in present |-> 0]
    /\ gated = [p \in present |-> {}]
    /\ destroyed = [p \in present |-> 0]
    /\ lost = {}
    /\ last = Step("init", 0, 0, Null, Null)
    /\ sent = {}
    /\ emitted = <<>>

---------------------------------------------------------------------------
(* The handlers *)

\* mutant of Broadcast: the update goes out through the yjs:sync2 sender
Broadcast_AsSync2(p, d0, d1) == Wire(p, {}, Msg("sync2", TxUpdate(d0, d1), NoBasis))

\* mutant of Broadcast: the update is sent to one peer of the room only
Broadcast_OnePeer(p, d0, d1) ==
    Wire(p, IF peerMap[p] = {} THEN {} ELSE {CHOOSE t \in peerMap[p] : TRUE},
         Msg("upd", TxUpdate(d0, d1), NoBasis))

\* doc.on("update") handler (lines 64-66): sendUpd(update), to every peer
Broadcast(p, d0, d1) == Wire(p, {}, Msg("upd", TxUpdate(d0, d1), NoBasis))

\* mutant of UpdateFires: the "update" event fires after every transaction
UpdateFires_Always(d0, d1) == d0.observed

\* the doc emits "update" to the handler of line 64: the transaction changed
\* something and doc.destroy() has not dropped the handler
UpdateFires(d0, d1) == TxChanged(d0, d1) /\ d0.observed

\* mutant of NextSnap: the callback never replaces the retained snapshot
NextSnap_Stale(old, d0, d1) == old

\* line 87: the snapshot the map.observe callback retains, when it runs
NextSnap(old, d0, d1) == IF TxChanged(d0, d1) THEN snapshot(d1) ELSE old

\* the end of a transaction on p's doc that took it from doc[p] to d1: the
\* map.observe callback (lines 76-88) and the "update" handler (lines 64-66);
\* base is the network the handler started from
Commit(p, d1, base, step) ==
    LET evs == IF TxChanged(doc[p], d1)
               THEN ObserveEvents(snap[p], snapshot(d1)) ELSE <<>>
        bcast == UpdateFires(doc[p], d1)
        out == IF bcast THEN Broadcast(p, doc[p], d1) ELSE {}
    IN  /\ doc' = [doc EXCEPT ![p] = d1]
        /\ snap' = [snap EXCEPT ![p] = NextSnap(@, doc[p], d1)]
        /\ events' = [events EXCEPT ![p] = @ \o evs]
        /\ emitted' = evs
        /\ updCount' = [updCount EXCEPT ![p] = IF bcast THEN @ + 1 ELSE @]
        /\ net' = NetAfter(base, out)
        /\ sent' = out
        /\ last' = step

\* lines 48-50: what the join handler sends when the room's peers are pm
JoinRequest(p, q, pm) ==
    IF Gated(p, pm) THEN {}
    ELSE {[from |-> p, to |-> q, msg |-> Msg("sync1", encodeStateVector(doc[p]), NoBasis)]}

\* room.onPeerJoin callback (lines 47-51), run once the room has put q in peerMap
PeerJoin(p, q) ==
    /\ p # q
    /\ InRoom(p)
    /\ InRoom(q)
    /\ q \notin peerMap[p]
    /\ {p, q} \in cfg.links
    /\ peerMap' = [peerMap EXCEPT ![p] = @ \cup {q}]
    /\ gated' = [gated EXCEPT ![p] = IF Gated(p, peerMap[p] \cup {q}) THEN @ \cup {q} ELSE @]
    /\ net' = NetAfter(net, JoinRequest(p, q, peerMap[p] \cup {q}))
    /\ sent' = JoinRequest(p, q, peerMap[p] \cup {q})
    /\ last' = Step("peerJoin", p, q, Null, Null)
    /\ emitted' = <<>>
    /\ UNCHANGED <<cfg, doc, snap, events, room, calls, updCount, destroyed, lost>>

\* the room hands p the next message of q, which is on channel ch
Arrives(p, q, ch) ==
    /\ p # q
    /\ InRoom(p)
    /\ q \in peerMap[p]
    /\ net[<<q, p>>] # <<>>
    /\ Head(net[<<q, p>>]).ch = ch

Taken(p, q) == [net EXCEPT ![<<q, p>>] = Tail(@)]

\* mutant of Sync1Reply: the peer-count ceiling also gates the answer
Sync1Reply_Gated(p, q, m) ==
    IF toU8Throws(m) \/ Gated(p, peerMap[p]) THEN {}
    ELSE Wire(p, {q}, Msg("sync2", encodeStateAsUpdate(doc[p], toU8(m)),
                          [doc |-> doc[p], sv |-> toU8(m)]))

\* mutant of Sync1Reply: the diff is computed against the responder's own vector
Sync1Reply_OwnVector(p, q, m) ==
    IF toU8Throws(m) THEN {}
    ELSE Wire(p, {q}, Msg("sync2", encodeStateAsUpdate(doc[p], encodeStateVector(doc[p])),
                          [doc |-> doc[p], sv |-> toU8(m)]))

\* mutant of Sync1Reply: the answer is sent with no target
Sync1Reply_ToAll(p, q, m) ==
    IF toU8Throws(m) THEN {}
    ELSE Wire(p, {}, Msg("sync2", encodeStateAsUpdate(doc[p], toU8(m)),
                         [doc |-> doc[p], sv |-> toU8(m)]))

\* lines 54-56: the diff for the received state vector, sent to its sender
Sync1Reply(p, q, m) ==
    IF toU8Throws(m) THEN {}
    ELSE Wire(p, {q}, Msg("sync2", encodeStateAsUpdate(doc[p], toU8(m)),
                          [doc |-> doc[p], sv |-> toU8(m)]))

\* onSync1 callback (lines 53-57)
OnSync1(p, q) ==
    /\ Arrives(p, q, "sync1")
    /\ net' = NetAfter(Taken(p, q), Sync1Reply(p, q, Head(net[<<q, p>>])))
    /\ sent' = Sync1Reply(p, q, Head(net[<<q, p>>]))
    /\ last' = Step("sync1", p, q, Null, Null)
    /\ emitted' = <<>>
    /\ UNCHANGED <<cfg, doc, snap, events, peerMap, room, calls, updCount, gated, destroyed, lost>>

\* onSync2 callback (lines 59-61): Y.applyUpdate and what its transaction triggers
OnSync2(p, q) ==
    /\ Arrives(p, q, "sync2")
    /\ \E d1 \in {IF toU8Throws(Head(net[<<q, p>>])) THEN doc[p]
                   ELSE applyUpdate(doc[p], toU8(Head(net[<<q, p>>])))} :
          Commit(p, d1, Taken(p, q), Step("sync2", p, q, Null, Null))
    /\ UNCHANGED <<cfg, peerMap, room, calls, gated, destroyed, lost>>

\* onUpd callback (lines 68-70)
OnUpd(p, q) ==
    /\ Arrives(p, q, "upd")
    /\ \E d1 \in {IF toU8Throws(Head(net[<<q, p>>])) THEN doc[p]
                   ELSE applyUpdate(doc[p], toU8(Head(net[<<q, p>>])))} :
          Commit(p, d1, Taken(p, q), Step("upd", p, q, Null, Null))
    /\ UNCHANGED <<cfg, peerMap, room, calls, gated, destroyed, lost>>

\* api.setItem (lines 114-116)
SetItem(p, key, value) ==
    /\ Constructed(p)
    /\ Len(calls) < cfg.maxCalls
    /\ calls' = Append(calls, Step("setItem", p, 0, String(key), String(value)))
    /\ Commit(p, MapSet(doc[p], p, String(key), String(value)), net,
              Step("setItem", p, 0, String(key), String(value)))
    /\ UNCHANGED <<cfg, peerMap, room, gated, destroyed, lost>>

\* api.removeItem (lines 117-119)
RemoveItem(p, key) ==
    /\ Constructed(p)
    /\ Len(calls) < cfg.maxCalls
    /\ calls' = Append(calls, Step("removeItem", p, 0, String(key), Null))
    /\ Commit(p, MapDelete(doc[p], String(key)), net,
              Step("removeItem", p, 0, String(key), Null))
    /\ UNCHANGED <<cfg, peerMap, room, gated, destroyed, lost>>

\* api.clear (lines 120-122)
Clear(p) ==
    /\ Constructed(p)
    /\ Len(calls) < cfg.maxCalls
    /\ calls' = Append(calls, Step("clear", p, 0, Null, Null))
    /\ Commit(p, MapClear(doc[p]), net, Step("clear", p, 0, Null, Null))
    /\ UNCHANGED <<cfg, peerMap, room, gated, destroyed, lost>>

RECURSIVE Sum(_, _)
Sum(f, S) == IF S = {} THEN 0 ELSE LET x == CHOOSE y \in S : TRUE IN f[x] + Sum(f, S \ {x})

DestroyCalls == Sum(destroyed, DOMAIN destroyed)

\* api.destroy (lines 133-136): room.leave(), whose errors are swallowed, then
\* doc.destroy(), which drops the handlers registered on the doc (the
\* "update" handler of line 64) and leaves the map and its observers alone.
\* leave() closes the peers at once, or, where it is asynchronous, only after
\* it has told them (LeaveDone).
Destroy(p) ==
    /\ Constructed(p)
    /\ DestroyCalls < MaxDestroy
    /\ destroyed' = [destroyed EXCEPT ![p] = @ + 1]
    /\ IF room[p] = "joined" /\ ~cfg.leaveAsync
       THEN /\ room' = [room EXCEPT ![p] = "left"]
            /\ peerMap' = [peerMap EXCEPT ![p] = {}]
       ELSE /\ room' = [room EXCEPT ![p] = IF @ = "joined" THEN "leaving" ELSE @]
            /\ UNCHANGED peerMap
    /\ doc' = [doc EXCEPT ![p].observed = FALSE]
    /\ last' = Step("destroy", p, 0, Null, Null)
    /\ sent' = {}
    /\ emitted' = <<>>
    /\ UNCHANGED <<cfg, snap, events, net, calls, updCount, gated, lost>>

\* the tail of an asynchronous room.leave(): the peers are closed
LeaveDone(p) ==
    /\ room[p] = "leaving"
    /\ room' = [room EXCEPT ![p] = "left"]
    /\ peerMap' = [peerMap EXCEPT ![p] = {}]
    /\ last' = Step("leaveDone", p, 0, Null, Null)
    /\ sent' = {}
    /\ emitted' = <<>>
    /\ UNCHANGED <<cfg, doc, snap, events, net, calls, updCount, gated, destroyed, lost>>

---------------------------------------------------------------------------
(* Construction (lines 13-33) *)

\* identifiers as a caller passes them: left out, the empty string, a name
RawIds == {<<"undefined", "">>, <<"string", "">>, <<"string", "app">>}

\* !x of lines 21-22 is false: x is neither undefined nor the empty string
Truthy(raw) == raw[1] # "undefined" /\ raw[2] # ""

\* an identifier as the step log shows it
Shown(raw) == IF raw[1] = "undefined" THEN "undefined" ELSE raw[2]

\* mutant of createThrows: only the application identifier is checked
createThrows_AppOnly(appId, roomId) == ~Truthy(appId)

\* lines 21-22: the two checks that throw
createThrows(appId, roomId) == ~Truthy(appId) \/ ~Truthy(roomId)

\* createYStorage({appId, roomId}) for the instance of p: throws at line 21 or
\* 22, or makes the doc and the map (lines 25-26), joins the room (line 33),
\* registers the handlers (lines 39-70) and takes the first snapshot (line 75)
createYStorage(p, appId, roomId) ==
    /\ room[p] = "none"
    /\ IF createThrows(appId, roomId)
       THEN /\ last' = Step("createThrew", p, 0, Shown(appId), Shown(roomId))
            /\ UNCHANGED <<doc, snap, room>>
       ELSE /\ last' = Step("create", p, 0, Shown(appId), Shown(roomId))
            /\ doc' = [doc EXCEPT ![p] = EmptyDoc]
            /\ snap' = [snap EXCEPT ![p] = snapshot(EmptyDoc)]
            /\ room' = [room EXCEPT ![p] = "joined"]
    /\ sent' = {}
    /\ emitted' = <<>>
    /\ UNCHANGED <<cfg, events, peerMap, net, calls, updCount, gated, destroyed, lost>>

---------------------------------------------------------------------------
(* What the room can do to the messages (lines 39-41, 53-70) *)

Channels == {"sync1", "sync2", "upd"}

\* what a payload that is text would hold if it were read as a state vector
\* (yjs:sync1) or as an update (yjs:sync2, yjs:upd); the handlers never get
\* that far (toU8 throws)
BadBody(ch) ==
    IF ch = "sync1" THEN [c \in Peers |-> 0]
    ELSE [ structs |-> {[id |-> <<3, 0>>, key |-> "x", val |-> "2", origin |-> NoId]},
           ds      |-> {} ]

\* a peer q of p's room sends p, on one of the three actions, a payload that
\* is not binary (text or JSON, which Trystero delivers as a string or an
\* object); at most one such message is in flight from q to p
BadMessage(q, p, ch) ==
    /\ p # q
    /\ InRoom(p)
    /\ q \in peerMap[p]
    /\ \A j \in 1..Len(net[<<q, p>>]) : ~toU8Throws(net[<<q, p>>][j])
    /\ net' = [net EXCEPT ![<<q, p>>] =
                  Append(@, [ch |-> ch, bin |-> "string", body |-> BadBody(ch),
                             basis |-> NoBasis])]
    /\ last' = Step("badMessage", q, p, Null, Null)
    /\ sent' = {}
    /\ emitted' = <<>>
    /\ UNCHANGED <<cfg, doc, snap, events, peerMap, room, calls, updCount, gated,
                   destroyed, lost>>

\* the transport loses the message of q that p's room would hand over next, a
\* yjs:upd message (sendUpd of line 65 is neither acknowledged nor retried)
Lose(q, p) ==
    /\ p # q
    /\ Cardinality(lost) < MaxLost
    /\ net[<<q, p>>] # <<>>
    /\ Head(net[<<q, p>>]).ch = "upd"
    /\ net' = Taken(p, q)
    /\ lost' = lost \cup {[from |-> q, to |-> p, body |-> Head(net[<<q, p>>]).body]}
    /\ last' = Step("lose", p, q, Null, Null)
    /\ sent' = {}
    /\ emitted' = <<>>
    /\ UNCHANGED <<cfg, doc, snap, events, peerMap, room, calls, updCount, gated, destroyed>>

---------------------------------------------------------------------------
(* Specifications *)

Present == cfg.present

Join == \E p \in Present, q \in Present : PeerJoin(p, q)

Sync1 == \E p \in Present, q \in Present : OnSync1(p, q)

Sync2 == \E p \in Present, q \in Present : OnSync2(p, q)

Upd == \E p \in Present, q \in Present : OnUpd(p, q)

Set == \E p \in Present, key \in RawKeys, value \in RawVals : SetItem(p, key, value)

Remove == \E p \in Present, key \in RawKeys : RemoveItem(p, key)

ClearAll == \E p \in Present : Clear(p)

Shutdown == \E p \in Present : Destroy(p)

Left == \E p \in Present : LeaveDone(p)

Next == Join \/ Sync1 \/ Sync2 \/ Upd \/ Set \/ Remove \/ ClearAll

\* two peers, no peer-count ceiling, no shutdown
Init == InitWith({1, 2}, {{1, 2}}, {0}, {"map"}, {FALSE}, MaxCalls)

Spec == Init /\ [][Next]_vars

\* the same two peers with api.destroy, under either behaviour of room.leave()
NextDestroy == Next \/ Shutdown \/ Left

InitDestroy == InitWith({1, 2}, {{1, 2}}, {0}, {"map"}, BOOLEAN, MaxCallsDestroy)

SpecDestroy == InitDestroy /\ [][NextDestroy]_vars

\* three peers, of which 2 and 3 each meet peer 1 only; peer 1 has a ceiling
\* of 1 or none, under either getPeers()
InitCap == InitWith({1, 2, 3}, {{1, 2}, {1, 3}}, {0, 1}, {"list", "map"}, {FALSE}, MaxCallsCap)

SpecCap == InitCap /\ [][Next]_vars

\* two peers, one of which may be sent payloads that are not binary
Bad == \E p \in Present, q \in Present, ch \in Channels : BadMessage(q, p, ch)

NextFault == Next \/ Bad

InitFault == InitWith({1, 2}, {{1, 2}}, {0}, {"map"}, {FALSE}, MaxCallsFault)

SpecFault == InitFault /\ [][NextFault]_vars

\* two peers and a transport that may lose an update message
Loss == \E p \in Present, q \in Present : Lose(q, p)

NextLoss == Next \/ Loss

InitLoss == InitWith({1, 2}, {{1, 2}}, {0}, {"map"}, {FALSE}, MaxCallsLoss)

SpecLoss == InitLoss /\ [][NextLoss]_vars

\* two instances that are still to be constructed, with any identifiers
Make == \E p \in Present, appId \in RawIds, roomId \in RawIds : createYStorage(p, appId, roomId)

NextCreate == Next \/ Make

InitCreate ==
    /\ cfg = [ present |-> {1, 2}, links |-> {{1, 2}}, maxCalls |-> MaxCallsCreate,
               maxPeers |-> [p \in Peers |-> 0], peersApi |-> "map", leaveAsync |-> FALSE ]
    /\ doc = [p \in {1, 2} |-> EmptyDoc]
    /\ snap = [p \in {1, 2} |-> snapshot(EmptyDoc)]
    /\ events = [p \in {1, 2} |-> <<>>]
    /\ peerMap = [p \in {1, 2} |-> {}]
    /\ room = [p \in {1, 2} |-> "none"]
    /\ net = [pair \in {<<1, 2>>, <<2, 1>>} |-> <<>>]
    /\ calls = <<>>
    /\ updCount = [p \in {1, 2} |-> 0]
    /\ gated = [p \in {1, 2} |-> {}]
    /\ destroyed = [p \in {1, 2} |-> 0]
    /\ lost = {}
    /\ last = Step("init", 0, 0, Null, Null)
    /\ sent = {}
    /\ emitted = <<>>

SpecCreate == InitCreate /\ [][NextCreate]_vars

\* three peers, 2 and 3 each meeting peer 1, with a transport that delivers
\* every join notification and every message it holds (reliable, ordered
\* channels): the local calls may stop at any time, the deliveries may not
InitLive == InitWith({1, 2, 3}, {{1, 2}, {1, 3}}, {0}, {"map"}, {FALSE}, MaxCallsLive)

SpecLive ==
    /\ InitLive /\ [][Next]_vars
    /\ WF_vars(Join) /\ WF_vars(Sync1) /\ WF_vars(Sync2) /\ WF_vars(Upd)

---------------------------------------------------------------------------
(* The public reads (lines 104-113) *)

\* api.getItem: map.get(String(key)), null for undefined; the String() of a
\* stored value, which is a string, is that string
getItem(p, key) == MapGet(doc[p], String(key))

\* api.length
length(p) == MapSize(doc[p])

\* a and b have each observed the other's join
Connected(a, b) == b \in peerMap[a] /\ a \in peerMap[b]

\* no message between a and b is in flight
Quiet(a, b) == net[<<a, b>>] = <<>> /\ net[<<b, a>>] = <<>>

SameContents(a, b) == \A k \in RawKeys : getItem(a, k) = getItem(b, k)

X == <<"string", "x">>

\* the Diffs there are: those in flight on yjs:sync2 and yjs:upd, and the one
\* every peer would compute for every other peer's state vector (line 55)
Diffs ==
    UNION {{net[pair][j].body : j \in {i \in 1..Len(net[pair]) : net[pair][i].ch # "sync1"}}
           : pair \in DOMAIN net}
    \cup {encodeStateAsUpdate(doc[q], encodeStateVector(doc[r])) : q \in Present, r \in Present}

\* what the handler of a sync-response or an update (lines 59-61, 68-70) makes
\* of Diff u on a peer whose doc is d and whose retained snapshot is s: the doc
\* and the snapshot afterwards and the events dispatched (lines 76-88)
Applied(d, s, u) ==
    LET d1 == applyUpdate(d, u)
    IN  [ doc  |-> d1,
          snap |-> NextSnap(s, d, d1),
          evs  |-> IF TxChanged(d, d1) THEN ObserveEvents(s, snapshot(d1)) ELSE <<>> ]

---------------------------------------------------------------------------
(* Claims *)

C2_AsStated ==
    [][ ( /\ OnSync2(1, 2)
          /\ calls = <<Step("setItem", 1, 0, "x", "1")>>
          /\ Head(net[<<2, 1>>]).basis.sv[1] = 1 )
        => getItem(2, X)' = "1" ]_vars

\* C2 (round-trip handshake, amended): a peer b that holds no item handles the
\* sync-response peer a computed for b's own request while a held x = "1";
\* b then holds exactly what a held when it answered, so x = "1".
C2_RoundTrip ==
    [][ \A a \in Present, b \in Present :
          ( /\ OnSync2(b, a)
            /\ doc[b].items = {}
            /\ MapGet(Head(net[<<a, b>>]).basis.doc, "x") = "1" )
          => /\ getItem(b, X)' = "1"
             /\ \A k \in Keys : MapGet(doc'[b], k) = MapGet(Head(net[<<a, b>>]).basis.doc, k) ]_vars

\* C2 witness: peer 1 set x = "1" (the only call), and peer 2 has just got it
\* from a sync-response
C2_Witness ==
    /\ calls = <<Step("setItem", 1, 0, "x", "1")>>
    /\ last = Step("sync2", 2, 1, Null, Null)
    /\ emitted = <<evt("x", Null, "1")>>
    /\ getItem(2, X) = "1"

\* C3 (initiator catch-up): when a peer handles a sync-response, it then has
\* every item and every deletion the responder had when it computed it.
C3_InitiatorCatchUp ==
    [][ \A a \in Present, r \in Present :
          OnSync2(a, r)
          => /\ Ids(Head(net[<<r, a>>]).basis.doc) \subseteq Ids(doc'[a])
             /\ Head(net[<<r, a>>]).basis.doc.del \subseteq doc'[a].del ]_vars

\* C3 witness: a sync-response has just brought the initiator a deletion and
\* an item it did not have
C3_Witness ==
    /\ last.op = "sync2"
    /\ emitted # <<>>
    /\ doc[last.peer].del # {}
    /\ \E i \in doc[last.peer].items : i.id[1] = last.from

\* C4 (protocol discipline): a sync-response is only sent by the handler of a
\* sync-request, to the sender of that request; a sync-request is only sent by
\* the join handler, to the peer that joined; no handler sends more than one
\* of them, and none is sent by a local call, an update or a sync-response.
C4_Discipline ==
    /\ \A w \in sent : w.msg.ch = "sync2" =>
          last.op = "sync1" /\ w.from = last.peer /\ w.to = last.from
    /\ \A w \in sent : w.msg.ch = "sync1" =>
          last.op = "peerJoin" /\ w.from = last.peer /\ w.to = last.from
    /\ Cardinality({w \in sent : w.msg.ch \in {"sync1", "sync2"}}) <= 1

\* C4 witness: a sync-request was just answered with a diff that holds an item
C4_Witness ==
    /\ last.op = "sync1"
    /\ \E w \in sent : w.msg.ch = "sync2" /\ w.msg.body.structs # {}
    /\ Cardinality(peerMap[last.peer]) = 2

\* C5 (change events of local writes): setItem(k, v) on a peer whose value of
\* k is not v (absent, or another value) dispatches exactly the event
\* {k, the value before or null, v}; removeItem(k) of a key the peer holds
\* dispatches exactly {k, the value before, null}; nothing about another key.
C5_LocalWriteEvents ==
    [][ \A p \in Present, k \in RawKeys :
          /\ \A v \in RawVals :
                (SetItem(p, k, v) /\ getItem(p, k) # String(v))
                => emitted' = <<evt(String(k), getItem(p, k), String(v))>>
          /\ (RemoveItem(p, k) /\ getItem(p, k) # Null)
                => emitted' = <<evt(String(k), getItem(p, k), Null)>> ]_vars

\* C5 witness: setItem(x, 1), setItem(x, 2), removeItem(x) on peer 1, and the
\* three events of the claim
C5_Witness ==
    /\ calls = << Step("setItem", 1, 0, "x", "1"), Step("setItem", 1, 0, "x", "2"),
                  Step("removeItem", 1, 0, "x", Null) >>
    /\ events[1] = <<evt("x", Null, "1"), evt("x", "1", "2"), evt("x", "2", Null)>>

AllQuiet == \A pair \in DOMAIN net : net[pair] = <<>>

\* C6 (no self-notification duplication): when the only local call made in
\* the room is one setItem, by peer p, p has dispatched exactly one event and
\* made exactly one update broadcast, in every state that follows, whatever
\* was delivered or re-broadcast since.
C6_NoDuplication ==
    \A p \in Present :
        (Len(calls) = 1 /\ calls[1].op = "setItem" /\ calls[1].peer = p)
        => Len(events[p]) = 1 /\ updCount[p] = 1

\* C6 witness: peer 1 made the call, peers 2 and 3 applied and re-broadcast
\* it, and peer 1 has handled what came back; nothing is in flight
C6_Witness ==
    /\ Len(calls) = 1 /\ calls[1].op = "setItem" /\ calls[1].peer = 1
    /\ last.op = "upd" /\ last.peer = 1
    /\ updCount[2] = 1 /\ updCount[3] = 1
    /\ AllQuiet

\* C7 (the ceiling gates initiation): the join handler sends nothing when a
\* ceiling is set and the peers the room knows, the joined one included,
\* outnumber it; otherwise it sends exactly one sync-request, to the joined peer.
C7_CapGatesInitiation ==
    last.op = "peerJoin" =>
        IF cfg.maxPeers[last.peer] # 0
           /\ Cardinality(peerMap[last.peer]) > cfg.maxPeers[last.peer]
        THEN sent = {}
        ELSE \E w \in sent : sent = {w} /\ w.to = last.from /\ w.msg.ch = "sync1"

\* C8 (the ceiling never blocks answering): the handler of a sync-request
\* sends exactly one sync-response, to the sender of the request, whatever
\* the ceiling and the number of peers.
C8_CapNeverBlocksAnswer ==
    last.op = "sync1" =>
        \E w \in sent :
            sent = {w} /\ w.from = last.peer /\ w.to = last.from /\ w.msg.ch = "sync2"

\* C8 witness: peer 1 answered a peer whose join it had left unanswered
\* because of the ceiling
C8_Witness ==
    /\ last.op = "sync1"
    /\ last.from \in gated[last.peer]
    /\ sent # {}

\* C9 (shutdown inertness): once destroy() has been called on a peer, no step
\* dispatches a change event there.
C9_InertAfterDestroy ==
    [][ \A p \in Present : destroyed[p] >= 1 => events'[p] = events[p] ]_vars

\* C10 (shutdown stops outbound traffic, keeps state): once destroy() has been
\* called on a peer, no step puts a message of that peer on the wire; and a
\* destroy() step changes no getItem value.
C10_NoSendAfterDestroy ==
    [][ \A p \in Present :
          /\ destroyed[p] >= 1 => \A w \in sent' : w.from # p
          /\ destroyed'[p] > destroyed[p] => \A k \in RawKeys : getItem(p, k)' = getItem(p, k) ]_vars

C12_Idempotent ==
    \A p \in Present, u \in Diffs :
        LET once == Applied(doc[p], snap[p], u)
            twice == Applied(once.doc, once.snap, u)
        IN  /\ \A k \in Keys : MapGet(twice.doc, k) = MapGet(once.doc, k)
            /\ twice.evs = <<>>

\* C12 witness: the next message for peer 2 is a Diff with an item and a
\* deletion whose first handling changes peer 2's contents and dispatches an
\* event, and whose second handling changes nothing
C12_Witness ==
    /\ net[<<1, 2>>] # <<>>
    /\ Head(net[<<1, 2>>]).ch # "sync1"
    /\ LET u == Head(net[<<1, 2>>]).body
           once == Applied(doc[2], snap[2], u)
           twice == Applied(once.doc, once.snap, u)
       IN  /\ u.structs # {} /\ u.ds # {}
           /\ once.evs # <<>>
           /\ twice.doc = once.doc

\* the update l, lost on its way, is part of document d: its items and its deletions
Holds(d, l) == l.body.structs \subseteq d.items /\ l.body.ds \subseteq d.del

\* C13 as stated: once peer b has handled an update of peer a that follows
\* one the transport lost on its way from a to b, b has the items and the
\* deletions of the lost update.
C13_AsStated ==
    [][ \A a \in Present, b \in Present :
          OnUpd(b, a) => \A l \in lost : (l.from = a /\ l.to = b) => Holds(doc'[b], l) ]_vars

\* C13 (self-healing after message loss, amended): once peer b has handled a
\* sync-response that peer a computed while it held the change of an update
\* lost on its way from a to b, b has the items and the deletions of the lost
\* update; no retry is involved.
C13_HealsOnHandshake ==
    [][ \A a \in Present, b \in Present :
          OnSync2(b, a)
          => \A l \in lost :
                (l.from = a /\ l.to = b /\ Holds(Head(net[<<a, b>>]).basis.doc, l))
                => Holds(doc'[b], l) ]_vars

\* C13 witness: an update of peer 1 that deleted an item was lost on its way
\* to peer 2, and a sync-response has just brought peer 2 that deletion
C13_Witness ==
    /\ last = Step("sync2", 2, 1, Null, Null)
    /\ emitted # <<>>
    /\ \E l \in lost : l.from = 1 /\ l.to = 2 /\ l.body.ds # {} /\ Holds(doc[2], l)

\* the messages in flight before the step are still in flight after it
NothingDelivered == \A pair \in DOMAIN net : SubSeq(net'[pair], 1, Len(net[pair])) = net[pair]

\* C14 (local writes are synchronous and need no peers): in the state right
\* after setItem(k, v), getItem(k) is the string form of v; right after
\* removeItem(k), getItem(k) is null; right after clear(), length is 0; the
\* call takes no message off the wire, whatever is connected or in flight;
\* and length is always the number of keys whose getItem is not null.
C14_SyncLocalWrites ==
    /\ [](\A p \in Present : length(p) = Cardinality({k \in RawKeys : getItem(p, k) # Null}))
    /\ [][ \A p \in Present :
             /\ \A k \in RawKeys, v \in RawVals :
                   SetItem(p, k, v) => getItem(p, k)' = String(v) /\ NothingDelivered
             /\ \A k \in RawKeys :
                   RemoveItem(p, k) => getItem(p, k)' = Null /\ NothingDelivered
             /\ Clear(p) => length(p)' = 0 /\ NothingDelivered ]_vars

\* C14 witness: a peer that no peer is connected to has set two keys and
\* cleared them
C14_Witness ==
    /\ last.op = "clear"
    /\ peerMap[last.peer] = {}
    /\ Len(emitted) = 2
    /\ length(last.peer) = 0

\* an identifier the caller left out or gave as the empty string
Missing(raw) == raw[2] = ""

\* C15 (configuration errors stop construction): createYStorage without an
\* application identifier or without a room identifier throws and changes
\* nothing; and as long as no instance was constructed for a peer, that peer
\* is in no room, knows no peer, has dispatched and broadcast nothing, and no
\* message of it is in flight.
C15_ConfigErrorStops ==
    /\ [](\A p \in Present :
            room[p] = "none"
            => /\ peerMap[p] = {} /\ events[p] = <<>> /\ updCount[p] = 0
               /\ \A q \in Present \ {p} : net[<<p, q>>] = <<>> /\ p \notin peerMap[q])
    /\ [][ \A p \in Present, appId \in RawIds, roomId \in RawIds :
             (createYStorage(p, appId, roomId) /\ (Missing(appId) \/ Missing(roomId)))
             => /\ last'.op = "createThrew"
                /\ room'[p] = "none"
                /\ sent' = {}
                /\ UNCHANGED <<doc, snap, events, peerMap, room, net, updCount>> ]_vars

\* C15 witness: peer 1 was constructed and has made a call; constructing peer
\* 2 with an application identifier and no room identifier has just thrown
C15_Witness ==
    /\ last = Step("createThrew", 2, 0, "app", "undefined")
    /\ room[1] = "joined"
    /\ room[2] = "none"
    /\ calls # <<>>

\* C16 (every engine mutation is broadcast, remote ones included): every step
\* that adds an item to a peer's document or deletes one, whether a local
\* setItem / removeItem / clear or the handling of a sync-response or an
\* update, makes that peer call sendUpd once, which puts exactly one update
\* message, carrying the items and deletions of that step, on the wire to
\* each peer connected to it, and nothing else.
C16_EveryMutationBroadcast ==
    [][ \A p \in Present :
          (doc'[p].items # doc[p].items \/ doc'[p].del # doc[p].del)
          => /\ sent' = { [from |-> p, to |-> t,
                           msg |-> Msg("upd", TxUpdate(doc[p], doc'[p]), NoBasis)]
                          : t \in peerMap[p] }
             /\ updCount'[p] = updCount[p] + 1 ]_vars

\* C16 witness: peer 1 has applied an update it received, dispatched an
\* event, and broadcast the change to its two peers
C16_Witness ==
    /\ last.op = "upd" /\ last.peer = 1
    /\ emitted # <<>>
    /\ Cardinality(sent) = 2
    /\ \A w \in sent : w.msg.ch = "upd" /\ w.msg.body.structs # {}

\* C17 (re-broadcast loops die out): handling an update whose items and
\* deletions the peer already has changes nothing, dispatches nothing and
\* sends nothing; and when every join notification and every message is
\* eventually delivered, the room reaches a state with no message in flight
\* and stays there once the local calls and the joins are over.
C17_LoopsDieOut ==
    /\ [][ \A p \in Present, q \in Present :
             (OnUpd(p, q) /\ Holds(doc[p], Head(net[<<q, p>>])))
             => doc'[p] = doc[p] /\ sent' = {} /\ emitted' = <<>> ]_vars
    /\ <>[]AllQuiet

\* C17 witness: peer 2 made the only call; peer 1 applied and re-broadcast it,
\* peer 3 applied and re-broadcast that, peer 1 has handled what came back
\* from peer 3, every peer holds the value and nothing is in flight
C17_Witness ==
    /\ Len(calls) = 1 /\ calls[1].op = "setItem" /\ calls[1].peer = 2
    /\ last = Step("upd", 1, 3, Null, Null)
    /\ updCount = <<1, 1, 1>>
    /\ \A p \in Present : MapGet(doc[p], calls[1].key) = calls[1].val
    /\ AllQuiet

\* the value a snapshot holds for key k, Null when it holds none
ValueIn(s, k) == IF SnapHas(s, k) THEN SnapGet(s, k) ELSE Null

\* C18 (the snapshot differ is exact for every mutation): in every step that
\* adds or deletes an item of a peer's document, local or remote, the events
\* dispatched are, with old the retained snapshot and new the map's contents
\* after the step, one {k, old value or null, new value} for each key of new
\* whose value is not its value in old, one {k, old value, null} for each key
\* of old that new lacks, each once and nothing else; afterwards the retained
\* snapshot holds the contents of new; a step that adds and deletes nothing
\* dispatches nothing.
C18_DifferExact ==
    [][ \A p \in Present :
          IF doc'[p].items # doc[p].items \/ doc'[p].del # doc[p].del
          THEN LET changed == {k \in Keys : /\ MapGet(doc'[p], k) # Null
                                            /\ MapGet(doc'[p], k) # ValueIn(snap[p], k)}
                   removed == {k \in Keys : /\ ValueIn(snap[p], k) # Null
                                            /\ MapGet(doc'[p], k) = Null}
                   expected == {evt(k, ValueIn(snap[p], k), MapGet(doc'[p], k)) : k \in changed}
                               \cup {evt(k, ValueIn(snap[p], k), Null) : k \in removed}
               IN  /\ {emitted'[j] : j \in 1..Len(emitted')} = expected
                   /\ Len(emitted') = Cardinality(expected)
                   /\ events'[p] = events[p] \o emitted'
                   /\ \A k \in Keys : ValueIn(snap'[p], k) = MapGet(doc'[p], k)
          ELSE events'[p] = events[p] /\ snap'[p] = snap[p] ]_vars

\* C18 witness: one sync-response has just made a peer that held a key
\* dispatch two events, one for each of two keys it lacked
C18_Witness ==
    /\ last.op = "sync2"
    /\ Len(emitted) = 2
    /\ emitted[1].key # emitted[2].key
    /\ Len(snap[last.peer]) = 2

\* p takes the sync-request m that heads q's queue to it and handles it
HandlesSync1(p, q, m) ==
    /\ Arrives(p, q, "sync1")
    /\ m = Head(net[<<q, p>>])
    /\ net'[<<q, p>>] = Tail(net[<<q, p>>])
    /\ last' = Step("sync1", p, q, Null, Null)

\* C19 (answering a sync-request is stateless and unicast): a step in which
\* peer p handles a sync-request of peer q leaves p's document, retained
\* snapshot, event log and count of update broadcasts as they were and
\* dispatches no event; it sends one message, a sync-response from p to q,
\* which is appended to the queue from p to q while every other queue gets
\* nothing; the answer to the same request computed in the state after the
\* step is that same message.
C19_StatelessUnicast ==
    [][ \A p \in Present : \A q \in Present \ {p} :
        \A m \in {net[<<q, p>>][j] : j \in 1..Len(net[<<q, p>>]) \cap {1}} :
          HandlesSync1(p, q, m) /\ ~toU8Throws(m) =>
              /\ doc'[p] = doc[p] /\ snap'[p] = snap[p]
              /\ events'[p] = events[p] /\ emitted' = <<>>
              /\ updCount' = updCount
              /\ Cardinality(sent') = 1
              /\ \A w \in sent' : w.from = p /\ w.to = q /\ w.msg.ch = "sync2"
                                  /\ net'[<<p, q>>] = Append(net[<<p, q>>], w.msg)
              /\ \A pair \in DOMAIN net : pair \notin {<<p, q>>, <<q, p>>} => net'[pair] = net[pair]
              /\ sent' = Sync1Reply(p, q, m)' ]_vars

\* C19 witness: a peer connected to two others has just answered the
\* sync-request of one of them with a diff that carries an item
C19_Witness ==
    /\ last.op = "sync1"
    /\ Cardinality(peerMap[last.peer]) = 2
    /\ \E w \in sent : w.to = last.from /\ w.msg.ch = "sync2" /\ w.msg.body.structs # {}

\* the positions of peer p's event log that hold an event for key k
EventsOf(p, k) == {j \in 1..Len(events[p]) : events[p][j].key = k}

\* the greatest element of a non-empty set of positions
Latest(js) == CHOOSE j \in js : \A i \in js : i <= j

\* C20 (change events form a consistent chain per key): on every peer, every
\* event of the log has an oldValue that differs from its newValue; its
\* oldValue is the newValue of the latest earlier event of that peer for the
\* same key, and null when there is none; and in every state the newValue of
\* the latest event of a key is what getItem returns for that key.
C20_EventChain ==
    \A p \in Present : \A key \in RawKeys : \A k \in {String(key)} :
        /\ \A j \in EventsOf(p, k) :
              /\ events[p][j].oldValue # events[p][j].newValue
              /\ LET before == {i \in EventsOf(p, k) : i < j}
                 IN  events[p][j].oldValue =
                        IF before = {} THEN Null ELSE events[p][Latest(before)].newValue
        /\ EventsOf(p, k) # {} => events[p][Latest(EventsOf(p, k))].newValue = getItem(p, key)

\* C20 witness: an update of another peer has just given a peer's log its
\* third event for one key, after an addition and a later event of that key
C20_Witness ==
    /\ last.op = "upd"
    /\ emitted # <<>>
    /\ \E k \in Keys : /\ Cardinality(EventsOf(last.peer, k)) = 3
                       /\ emitted[1].key = k
                       /\ emitted[1].oldValue # Null

=============================================================================
